---- MODULE Spec2Model ----
(***************************************************************************)
(* PDF-to-audiobook reader.  Three independent programs are modelled:      *)
(*   - the Streamlit script app.py (AudiobookState / AudiobookPlayer),      *)
(*   - the library class AudioReader (audio_reader.py),                     *)
(*   - the library class PDFHandler (pdf_handler.py); its cleanup_cache,   *)
(*     which touches the cache directory only, is also followed on its own. *)
(* app.py imports neither library class, so no state is shared; a           *)
(* behaviour exercises one of them (variable running).                      *)
(***************************************************************************)
EXTENDS Integers, Sequences, FiniteSets, TLC

VARIABLES
    running,        \* which program this behaviour exercises
    state,          \* app.py: st.session_state.state (AudiobookState)
    engine,         \* app.py: AudiobookPlayer.engine ("None" or "engine")
    app_pc,         \* app.py: position of the script run
    caller,         \* app.py: call site of the running play_current_page chain
    engine_calls,   \* app.py: engine.stop / engine.say calls of the current operation
    app_call,       \* app.py: the operation that ran last and its arguments
    reader,         \* audio_reader.py: the AudioReader object's fields
    texts,          \* audio_reader.py: read_pages' argument texts
    read_pc,        \* audio_reader.py: position of the thread inside read_pages
    now,            \* audio_reader.py: time.time(), in seconds
    said,           \* audio_reader.py: the utterances of this read_pages call: page, and whether it ran to completion
    run,            \* audio_reader.py: what happened during this read_pages call
    handler,        \* pdf_handler.py: the PDFHandler object's fields
    handler_call    \* pdf_handler.py: the method that ran last, its arguments and result

app_vars == <<state, engine, app_pc, caller, engine_calls, app_call>>
reader_vars == <<reader, texts, read_pc, now, said, run>>
handler_vars == <<handler, handler_call>>
vars == <<running, state, engine, app_pc, caller, engine_calls, app_call,
          reader, texts, read_pc, now, said, run, handler, handler_call>>

----------------------------------------------------------------------------
(* Bounds *)
MaxDocPages == 2        \* most pages of an uploaded document
MaxPdfPages == 2        \* most pages of a document given to PDFHandler
MaxTexts == 2           \* most entries of read_pages' argument texts
MaxTime == 120          \* the clock stops advancing here
TickSeconds == 60       \* the clock advances in steps of this many seconds
MaxAttemptsSeen == 4    \* the engine raises no more once recovery_attempts is this large
MaxErrorCount == 3      \* engine initialisation fails only while error_count stays within this
MaxCacheFiles == 2      \* most files in the cache directory

DocIds == {"A", "B"}    \* distinct documents

----------------------------------------------------------------------------
(* Strings.  A string is kept as its leading token (head), the document   *)
(* and page its text came from, and the rest (tail): startswith() looks at *)
(* the leading token, strip() turns whitespace into the empty string.      *)

Str(h, d, p, t) == [head |-> h, doc |-> d, page |-> p, tail |-> t]

EmptyStr == Str("", "", 0, "")
Blank == Str(" ", "", 0, "")

startswith(s, prefix) == s.head = prefix
strip(s) == IF s.head = " " THEN EmptyStr ELSE s
truthy(s) == s # EmptyStr

\* the text layer of page p of document d, as pdfplumber returns it
RawText(d, p) == Str("text", d, p, "")
\* ' '.join(word['text'] for word in page.extract_words())
JoinedWords(d, p) == Str("words", d, p, "")
\* f"[Page {page_num}: No readable text found]"
NoReadableText(p) == Str("[Page", "", p, ": No readable text found]")
\* f"[Page {page_num}: Error extracting text]"
ErrorExtractingText(p) == Str("[Page", "", p, ": Error extracting text]")
\* "[No text found on this page]"
NoTextFoundOnPage == Str("[No text found", "", 0, " on this page]")

\* the documents whose text a list of stored texts holds
DocsIn(list) == {list[i].doc : i \in 1..Len(list)} \ {""}

----------------------------------------------------------------------------
(* Documents.  A page is described by what pdfplumber does on it.          *)
PageKinds == {"text", "blank", "empty", "words", "fail"}

RECURSIVE SeqsUpTo(_, _)
SeqsUpTo(S, n) ==
    IF n = 0 THEN {<<>>}
    ELSE LET shorter == SeqsUpTo(S, n - 1)
         IN shorter \cup {Append(q, x) : q \in {r \in shorter : Len(r) = n - 1}, x \in S}

DocsOf(kinds, n) == {[id |-> d, pages |-> ps] : d \in DocIds, ps \in SeqsUpTo(kinds, n)}

\* page.extract_text(): the text, whitespace, nothing, or an exception
page_extract_text(doc, p) ==
    LET k == doc.pages[p]
    IN  IF k = "fail" THEN [raised |-> TRUE, text |-> EmptyStr]
        ELSE IF k = "text" THEN [raised |-> FALSE, text |-> RawText(doc.id, p)]
        ELSE IF k = "blank" THEN [raised |-> FALSE, text |-> Blank]
        ELSE [raised |-> FALSE, text |-> EmptyStr]

\* page.extract_words(): whether the page has words
page_has_words(doc, p) == doc.pages[p] = "words"

NoDoc == [id |-> "", pages |-> <<>>]

\* What the user uploads: a document, a file pdfplumber cannot open, or an
\* upload whose temporary copy cannot be written.
\* (line 417 sends a whitespace-only and an empty text layer down the same
\* branch, so uploaded pages carry the empty one)
Uploads ==
    {[doc |-> d, fault |-> "none"] : d \in DocsOf(PageKinds \ {"blank"}, MaxDocPages)}
        \cup {[doc |-> NoDoc, fault |-> f] : f \in {"open", "tmp_write"}}

----------------------------------------------------------------------------
(* app.py: AudiobookState *)

\* set_page with line 94 alone
set_page_current_only(s, page) == [s EXCEPT !.current_page = page]

AudiobookState ==
    [current_page |-> 1,
     total_pages |-> 0,
     is_playing |-> FALSE,
     error_message |-> "",
     pdf_text |-> <<>>,
     speed |-> 175,
     last_settings |-> [speed |-> 200, voice_index |-> 0, last_page |-> 1],
     reading_page |-> 1]

set_page(s, page) ==
    [s EXCEPT !.current_page = page,
              !.reading_page = page,
              !.last_settings = [@ EXCEPT !.last_page = page]]

show_error(s, message) == [s EXCEPT !.error_message = message]
\* (success_message is only displayed; it is not kept in the model)
show_success(s, message) == s

----------------------------------------------------------------------------
(* app.py: AudiobookPlayer.  The methods work on a context c:              *)
(*   c.s      st.session_state.state                                        *)
(*   c.eng    self.engine                                                   *)
(*   c.calls  the engine.stop() / engine.say() calls made so far            *)
(*            (the setProperty calls are left out)                          *)
(*   c.pc     "speaking" while engine.runAndWait() blocks, "returned" when  *)
(*            the method has returned, "idle" when the script run is over   *)
(*   c.caller the call site of play_current_page ("button": line 282,       *)
(*            "display": line 316)                                          *)

\* raised marks a say whose say() / runAndWait() raised
StopCall == [op |-> "stop", text |-> EmptyStr, raised |-> FALSE]
SayCall(t) == [op |-> "say", text |-> t, raised |-> FALSE]

Ctx(s, eng, calls) == [s |-> s, eng |-> eng, calls |-> calls, pc |-> "returned", caller |-> ""]

\* if hasattr(self, 'engine') and self.engine: self.engine.stop()
engine_stop(c) ==
    IF c.eng # "None" THEN [c EXCEPT !.calls = Append(@, StopCall)] ELSE c

InitOutcomes == {"ok", "init_raises", "property_raises"}

\* init_engine: pyttsx3.init() may raise (engine stays None), a later
\* setProperty / voices lookup may raise (engine already assigned).
init_engine(c, outcome) ==
    IF c.eng = "None"
    THEN CASE outcome = "ok" -> [c EXCEPT !.eng = "engine"]
           [] outcome = "init_raises" ->
                [c EXCEPT !.s = show_error(@, "Failed to initialize text-to-speech engine")]
           [] outcome = "property_raises" ->
                [c EXCEPT !.eng = "engine",
                          !.s = show_error(@, "Failed to initialize text-to-speech engine")]
    ELSE c

\* the value init_engine returns (True only on the path that reaches line 137)
init_engine_result(c, outcome) == c.eng = "None" /\ outcome = "ok"

\* update_page with a guard that lets the page after the last one through
update_page_lenient(c, new_page) ==
    IF 1 <= new_page /\ new_page <= c.s.total_pages + 1
    THEN engine_stop([c EXCEPT !.s = [set_page(@, new_page) EXCEPT !.is_playing = FALSE]])
    ELSE c

\* update_page without line 223
update_page_keeps_playing(c, new_page) ==
    IF 1 <= new_page /\ new_page <= c.s.total_pages
    THEN engine_stop([c EXCEPT !.s = set_page(@, new_page)])
    ELSE c

update_page(c, new_page) ==
    IF 1 <= new_page /\ new_page <= c.s.total_pages
    THEN engine_stop([c EXCEPT !.s = [set_page(@, new_page) EXCEPT !.is_playing = FALSE]])
    ELSE c

\* the text handle_file_upload stores for page p (lines 413-433)
stored_text(doc, p) ==
    LET r == page_extract_text(doc, p)
    IN  IF r.raised THEN ErrorExtractingText(p)
        ELSE IF truthy(r.text) /\ truthy(strip(r.text)) THEN strip(r.text)
        ELSE IF page_has_words(doc, p) THEN JoinedWords(doc.id, p)
        ELSE NoReadableText(p)

\* handle_file_upload without line 401
handle_file_upload_keeps_playing(s, f) ==
    IF f.fault = "tmp_write" THEN show_error(s, "Error handling file upload")
    ELSE
      LET reset == [s EXCEPT !.pdf_text = <<>>, !.total_pages = 0]
      IN  IF f.fault = "open" THEN show_error(reset, "Error processing PDF")
          ELSE
            LET n == Len(f.doc.pages)
                counted == [reset EXCEPT !.total_pages = n]
                paged == IF ~(1 <= counted.current_page /\ counted.current_page <= n)
                         THEN set_page(counted, 1) ELSE counted
                extracted == [p \in 1..n |-> stored_text(f.doc, p)]
                loaded == [paged EXCEPT !.pdf_text = extracted]
                text_pages == {p \in 1..n : ~startswith(extracted[p], "[Page")}
            IN  IF text_pages = {}
                THEN show_error(loaded, "This PDF appears to be scanned or contains only images")
                ELSE show_success(loaded, "Successfully loaded PDF")

\* handle_file_upload without lines 409-410
handle_file_upload_keeps_page(s, f) ==
    IF f.fault = "tmp_write" THEN show_error(s, "Error handling file upload")
    ELSE
      LET reset == [s EXCEPT !.pdf_text = <<>>, !.total_pages = 0, !.is_playing = FALSE]
      IN  IF f.fault = "open" THEN show_error(reset, "Error processing PDF")
          ELSE
            LET n == Len(f.doc.pages)
                extracted == [p \in 1..n |-> stored_text(f.doc, p)]
                loaded == [reset EXCEPT !.total_pages = n, !.pdf_text = extracted]
                text_pages == {p \in 1..n : ~startswith(extracted[p], "[Page")}
            IN  IF text_pages = {}
                THEN show_error(loaded, "This PDF appears to be scanned or contains only images")
                ELSE show_success(loaded, "Successfully loaded PDF")

handle_file_upload(s, f) ==
    IF f.fault = "tmp_write" THEN show_error(s, "Error handling file upload")
    ELSE
      LET reset == [s EXCEPT !.pdf_text = <<>>, !.total_pages = 0, !.is_playing = FALSE]
      IN  IF f.fault = "open" THEN show_error(reset, "Error processing PDF")
          ELSE
            LET n == Len(f.doc.pages)
                counted == [reset EXCEPT !.total_pages = n]
                paged == IF ~(1 <= counted.current_page /\ counted.current_page <= n)
                         THEN set_page(counted, 1) ELSE counted
                extracted == [p \in 1..n |-> stored_text(f.doc, p)]
                loaded == [paged EXCEPT !.pdf_text = extracted]
                text_pages == {p \in 1..n : ~startswith(extracted[p], "[Page")}
            IN  IF text_pages = {}
                THEN show_error(loaded, "This PDF appears to be scanned or contains only images")
                ELSE show_success(loaded, "Successfully loaded PDF")

\* play_current_page up to its first blocking engine.runAndWait() (lines 544-568
\* and 578-583); outcome is what init_engine meets when it has to run.
play_current_page(c, outcome) ==
    IF c.eng = "None" /\ ~init_engine_result(c, outcome)
    THEN [init_engine(c, outcome) EXCEPT !.pc = "returned"]
    ELSE
      LET c1 == init_engine(c, outcome)
          current_page_idx == c1.s.current_page - 1
      IN  IF 0 <= current_page_idx /\ current_page_idx < Len(c1.s.pdf_text)
          THEN LET current_text == c1.s.pdf_text[current_page_idx + 1]
               IN  IF truthy(current_text) /\ ~startswith(current_text, "[No text found")
                   THEN [engine_stop(c1) EXCEPT !.calls = Append(@, SayCall(current_text)),
                                                !.pc = "speaking"]
                   ELSE [c1 EXCEPT !.s.is_playing = FALSE, !.pc = "returned"]
          ELSE [c1 EXCEPT !.s.is_playing = FALSE, !.pc = "returned"]

\* after_utterance with <= for the < of line 571
after_utterance_past_end(c) ==
    IF c.s.is_playing /\ c.s.current_page <= c.s.total_pages
    THEN play_current_page([c EXCEPT !.s = set_page(@, c.s.current_page + 1)], "ok")
    ELSE [c EXCEPT !.pc = "returned"]

\* lines 570-577: engine.runAndWait() has returned
after_utterance(c) ==
    IF c.s.is_playing /\ c.s.current_page < c.s.total_pages
    THEN play_current_page([c EXCEPT !.s = set_page(@, c.s.current_page + 1)], "ok")
    ELSE [c EXCEPT !.pc = "returned"]

\* playback_failed without line 586
playback_failed_still_playing(c) ==
    [engine_stop([c EXCEPT !.s = show_error(@, "Error during playback"),
                           !.calls = [@ EXCEPT ![Len(@)].raised = TRUE]])
        EXCEPT !.pc = "returned"]

\* lines 584-591: say / runAndWait raised
playback_failed(c) ==
    [engine_stop([c EXCEPT !.s = [show_error(@, "Error during playback")
                                     EXCEPT !.is_playing = FALSE],
                           !.calls = [@ EXCEPT ![Len(@)].raised = TRUE]])
        EXCEPT !.pc = "returned"]

\* _create_controls, lines 297-326: show the current text and, if still
\* playing, play it
display_current_text(c, outcome) ==
    IF c.s.pdf_text # <<>>
    THEN LET current_page_idx == c.s.current_page - 1
         IN  IF 0 <= current_page_idx /\ current_page_idx < Len(c.s.pdf_text)
             THEN IF c.s.is_playing
                  THEN [play_current_page(c, outcome) EXCEPT !.caller = "display"]
                  ELSE c
             ELSE engine_stop([c EXCEPT !.s.is_playing = FALSE])
    ELSE c

\* values of the "Reading Speed" slider (100 to 400 in steps of 25): the
\* default of AudiobookState.speed and the default of last_settings['speed']
Speeds == {175, 200}

\* _create_controls, lines 328-344: the slider returns speed; setProperty may
\* raise (rate_raises), which line 376 catches.  The voice and volume widgets
\* (lines 347-374) repeat lines 341-344 on voice_idx and volume.
settings_sidebar(c, speed, rate_raises) ==
    IF speed # c.s.speed
    THEN LET set == [c EXCEPT !.s.speed = speed]
         IN  IF set.eng # "None" /\ rate_raises
             THEN [set EXCEPT !.s = show_error(@, "Error creating controls")]
             ELSE set
    ELSE c

\* what follows once play_current_page has returned to _create_controls
resume_controls(c, outcome, speed, rate_raises) ==
    LET shown == IF c.caller = "button"
                 THEN display_current_text([c EXCEPT !.caller = ""], outcome)
                 ELSE c
    IN  IF shown.pc = "speaking" THEN shown
        ELSE [settings_sidebar(shown, speed, rate_raises) EXCEPT !.pc = "idle", !.caller = ""]

\* "speed": the user moved the slider
Clicks == {"none", "go", "previous", "play_pause", "next", "speed"}

\* a widget the script renders enabled, given the state at line 227
clickable(s, click) ==
    CASE click = "previous" -> s.current_page > 1
      [] click = "next" -> s.current_page < s.total_pages
      [] OTHER -> TRUE

\* st.number_input(min_value=1, max_value=total_pages, value=current_page) raises
\* unless 1 <= value <= max_value
number_input_raises(s) ==
    ~(1 <= s.current_page /\ s.current_page <= s.total_pages)

\* button_handler whose Play branch starts from page 1
button_handler_from_first_page(c, click, target_page, outcome) ==
    CASE click = "go" ->
           update_page([engine_stop(c) EXCEPT !.s.is_playing = FALSE], target_page)
      [] click = "previous" ->
           update_page([engine_stop(c) EXCEPT !.s.is_playing = FALSE], c.s.current_page - 1)
      [] click = "next" ->
           update_page([engine_stop(c) EXCEPT !.s.is_playing = FALSE], c.s.current_page + 1)
      [] click = "play_pause" ->
           IF ~c.s.is_playing
           THEN [play_current_page(
                    [c EXCEPT !.s = set_page([@ EXCEPT !.is_playing = TRUE], 1)],
                    outcome) EXCEPT !.caller = "button"]
           ELSE engine_stop([c EXCEPT !.s.is_playing = FALSE])
      [] OTHER -> c

\* lines 255-295: the handler of the button that was clicked
button_handler(c, click, target_page, outcome) ==
    CASE click = "go" ->
           update_page([engine_stop(c) EXCEPT !.s.is_playing = FALSE], target_page)
      [] click = "previous" ->
           update_page([engine_stop(c) EXCEPT !.s.is_playing = FALSE], c.s.current_page - 1)
      [] click = "next" ->
           update_page([engine_stop(c) EXCEPT !.s.is_playing = FALSE], c.s.current_page + 1)
      [] click = "play_pause" ->
           IF ~c.s.is_playing
           THEN [play_current_page(
                    [c EXCEPT !.s = set_page([@ EXCEPT !.is_playing = TRUE], c.s.current_page)],
                    outcome) EXCEPT !.caller = "button"]
           ELSE engine_stop([c EXCEPT !.s.is_playing = FALSE])
      [] OTHER -> c

create_controls(c, click, target_page, o1, o2, o3, speed, rate_raises) ==
    LET c1 == init_engine(c, o1)
    IN  IF number_input_raises(c1.s)
        THEN [c1 EXCEPT !.s = show_error(@, "Error creating controls"), !.pc = "idle"]
        ELSE LET c2 == button_handler(c1, click, target_page, o2)
             IN  IF c2.pc = "speaking" THEN c2
                 ELSE resume_controls([c2 EXCEPT !.caller = "button"], o3, speed, rate_raises)

----------------------------------------------------------------------------
(* app.py: the script.  Streamlit runs main() once per user interaction;  *)
(* st.session_state.state survives between runs, the AudiobookPlayer and   *)
(* its engine are built anew by each run.                                   *)

\* The operation that ran last: its name and arguments, and from the state it
\* started in: current_page (page, for handle_file_upload and the buttons
\* other than Go), is_playing (was_playing) and the documents whose text was
\* stored (prior); for _create_controls also what the speed slider returns in
\* this script run (speed) and whether setProperty raises on it (rate_raises).
NoCall == [op |-> "", file |-> [doc |-> NoDoc, fault |-> "none"], click |-> "", page |-> 0,
           was_playing |-> FALSE, prior |-> {}, speed |-> 0, rate_raises |-> FALSE]

\* __init__, lines 108-114: reading_page follows current_page, no engine yet
new_player(s) == Ctx([s EXCEPT !.reading_page = s.current_page], "None", <<>>)

SetCtx(c) ==
    /\ state' = c.s
    /\ engine' = c.eng
    /\ engine_calls' = c.calls
    /\ app_pc' = c.pc
    /\ caller' = c.caller

CurrentCtx == [s |-> state, eng |-> engine, calls |-> engine_calls, pc |-> app_pc, caller |-> caller]

\* main(), line 596: a script run starts by building the AudiobookPlayer
StartRun ==
    /\ running = "app"
    /\ app_pc = "idle"
    /\ SetCtx([new_player(state) EXCEPT !.pc = "create_ui"])
    /\ app_call' = [NoCall EXCEPT !.op = "main"]
    /\ UNCHANGED <<running, reader_vars, handler_vars>>

\* create_ui with no uploaded file: only the hint of line 214 is shown
RunWithoutFile ==
    /\ running = "app"
    /\ app_pc = "create_ui"
    /\ app_pc' = "idle"
    /\ app_call' = [NoCall EXCEPT !.op = "create_ui"]
    /\ UNCHANGED <<running, state, engine, caller, engine_calls, reader_vars, handler_vars>>

\* create_ui with an uploaded file, up to the return of handle_file_upload (line 211)
HandleFileUpload(f) ==
    /\ running = "app"
    /\ app_pc = "create_ui"
    /\ state' = handle_file_upload(state, f)
    /\ app_pc' = "controls"
    /\ app_call' = [NoCall EXCEPT !.op = "handle_file_upload", !.file = f,
                                  !.page = state.current_page,
                                  !.was_playing = state.is_playing,
                                  !.prior = DocsIn(state.pdf_text)]
    /\ UNCHANGED <<running, engine, caller, engine_calls, reader_vars, handler_vars>>

\* _create_controls (line 212) with the button the user clicked, up to the
\* end of the script run or to the first blocking utterance
CreateControls(click, target_page, o1, o2, o3, speed, rate_raises) ==
    /\ running = "app"
    /\ app_pc = "controls"
    /\ clickable(state, click)
    /\ click = "go" => (1 <= target_page /\ target_page <= state.total_pages)
    /\ click # "go" => target_page = state.current_page
    /\ click = "speed" <=> speed # state.speed
    /\ rate_raises => click = "speed"
    /\ SetCtx(create_controls([CurrentCtx EXCEPT !.pc = "returned"], click, target_page, o1, o2, o3,
                              speed, rate_raises))
    /\ app_call' = [NoCall EXCEPT !.op = "create_controls", !.click = click, !.page = target_page,
                                  !.was_playing = state.is_playing,
                                  !.speed = speed, !.rate_raises = rate_raises]
    /\ UNCHANGED <<running, reader_vars, handler_vars>>

\* engine.runAndWait() returns: auto-advance, then the rest of the script run
UtteranceDone ==
    /\ running = "app"
    /\ app_pc = "speaking"
    /\ LET c == after_utterance(CurrentCtx)
       IN  SetCtx(IF c.pc = "speaking" THEN c ELSE resume_controls(c, "ok", app_call.speed, app_call.rate_raises))
    /\ UNCHANGED <<running, app_call, reader_vars, handler_vars>>

\* engine.say() / engine.runAndWait() raises
UtteranceFails ==
    /\ running = "app"
    /\ app_pc = "speaking"
    /\ SetCtx(resume_controls(playback_failed(CurrentCtx), "ok", app_call.speed,
                              app_call.rate_raises))
    /\ UNCHANGED <<running, app_call, reader_vars, handler_vars>>

\* update_page called on its own, with any page number
UpdatePage(new_page) ==
    /\ running = "app"
    /\ app_pc = "idle"
    /\ SetCtx([update_page([CurrentCtx EXCEPT !.calls = <<>>], new_page) EXCEPT !.pc = "idle"])
    /\ app_call' = [NoCall EXCEPT !.op = "update_page", !.page = new_page,
                                  !.was_playing = state.is_playing]
    /\ UNCHANGED <<running, reader_vars, handler_vars>>

----------------------------------------------------------------------------
(* audio_reader.py: AudioReader *)

RecoveryWindow == 60        \* seconds (recover_playback, line 46)
RecoveryCeiling == 3        \* recovery attempts (recover_playback, line 48)
InitAttempts == 3           \* stop_after_attempt(3) (line 23)

\* __init__: the fields after a successful initialize_engine
AudioReader ==
    [is_playing |-> FALSE,
     current_page |-> 1,
     error_count |-> 0,
     last_error_time |-> 0,
     recovery_attempts |-> 0]

\* the entries read_pages may find in texts: page text, the empty string of
\* extract_all_text, the "[No text found..." marker
TextsAt(p) == {RawText("A", p), EmptyStr, NoTextFoundOnPage}

TextLists ==
    UNION {{t \in [1..n -> UNION {TextsAt(p) : p \in 1..n}] : \A p \in 1..n : t[p] \in TextsAt(p)}
              : n \in 0..MaxTexts}

\* texts[i] with Python's indexing: a negative i counts from the end
Index(list, i) == IF i >= 0 THEN list[i + 1] ELSE list[Len(list) + i + 1]

\* initialize_engine under @retry: every failed attempt adds to error_count,
\* a successful one clears it; failed = InitAttempts means it raises for good.
\* The result is [ok, r]: whether it returned True, and the fields.
initialize_engine(r, failed) ==
    IF failed < InitAttempts
    THEN [ok |-> TRUE, r |-> [r EXCEPT !.error_count = 0]]
    ELSE [ok |-> FALSE, r |-> [r EXCEPT !.error_count = @ + failed]]

\* recover_playback without the test of line 48
recover_playback_unbounded(r, t, failed) ==
    LET counted == IF t - r.last_error_time < RecoveryWindow
                   THEN [r EXCEPT !.recovery_attempts = @ + 1]
                   ELSE [r EXCEPT !.recovery_attempts = 1]
        again == initialize_engine([counted EXCEPT !.last_error_time = t], failed)
    IN  [ok |-> again.ok, r |-> again.r, init |-> TRUE]

\* recover_playback at time t; failed as for initialize_engine.  init tells
\* whether it went on to initialize_engine (line 64).
recover_playback(r, t, failed) ==
    LET counted == IF t - r.last_error_time < RecoveryWindow
                   THEN [r EXCEPT !.recovery_attempts = @ + 1]
                   ELSE [r EXCEPT !.recovery_attempts = 1]
        again == initialize_engine([counted EXCEPT !.last_error_time = t], failed)
    IN  IF t - r.last_error_time < RecoveryWindow /\ counted.recovery_attempts > RecoveryCeiling
        THEN [ok |-> FALSE, r |-> counted, init |-> FALSE]
        ELSE [ok |-> again.ok, r |-> again.r, init |-> TRUE]

\* between the fields before and after recover_playback: initialize_engine
\* raised for good (line 36 counted its failed attempts)
init_raised(before, after) == after.error_count > before.error_count

\* line 120: the page is handed to read_text
readable(text) == truthy(text) /\ ~startswith(text, "[No text found")

\* read_text that retries whatever recover_playback returned
read_text_retries_always(recovered) == TRUE

\* line 98: read_text retries when recover_playback returned True
read_text_retries(recovered) == recovered

\* What happened during the current call (op): for read_pages the start page,
\* whether the engine raised, whether re-initialising it failed, whether
\* recovery was abandoned, whether stop() was called, and the page being
\* uttered when it was first called, and whether line 123 handed a page to
\* read_text after stop() had returned (said_after_stop); for a read_text
\* called on its own the
\* value it returned (result) and whether its recover_playback returned True
\* (recovered); for a recover_playback called on its own the value it returned
\* (result), the fields it started from (prior), the time of the call (at) and
\* whether it went on to initialize_engine (init).  inits counts, over all
\* calls of recover_playback, those that went on to initialize_engine since
\* the last one that came 60 seconds or more after last_error_time.
NoRun == [op |-> "", start_page |-> 0, faulted |-> FALSE, init_failed |-> FALSE,
          gave_up |-> FALSE, stop_called |-> FALSE, paused_page |-> 0,
          result |-> "none", recovered |-> FALSE,
          prior |-> AudioReader, at |-> 0, init |-> FALSE, inits |-> 0,
          said_after_stop |-> FALSE]

\* inits after a call of recover_playback at time t that started from the
\* fields before and returned res
count_inits(n, before, t, res) ==
    IF t - before.last_error_time < 60
    THEN n + (IF res.init THEN 1 ELSE 0)
    ELSE 1

\* engine.say(text) for page p; runAndWait() returning marks it finished
Say(log, p) == Append(log, [page |-> p, finished |-> FALSE])
Finished(log) == [log EXCEPT ![Len(log)].finished = TRUE]

\* read_pages is called; with no texts it only logs an error (lines 110-112)
ReadPages(list, start_page) ==
    /\ running = "audio_reader"
    /\ read_pc = "idle"
    /\ texts' = list
    /\ said' = <<>>
    /\ run' = [NoRun EXCEPT !.op = "read_pages", !.start_page = start_page,
                            !.inits = run.inits]
    /\ read_pc' = IF list = <<>> THEN "idle" ELSE "begin"
    /\ UNCHANGED <<running, app_vars, handler_vars, reader, now>>

\* read_text called on its own (lines 86-93); a constructed AudioReader has
\* an engine, so line 88 returns for the empty text only
ReadText(text) ==
    /\ running = "audio_reader"
    /\ read_pc = "idle"
    /\ texts' = <<text>>
    /\ IF truthy(text)
       THEN /\ said' = Say(<<>>, 1)
            /\ read_pc' = "speaking"
            /\ run' = [NoRun EXCEPT !.op = "read_text", !.inits = run.inits]
       ELSE /\ said' = <<>>
            /\ read_pc' = "idle"
            /\ run' = [NoRun EXCEPT !.op = "read_text", !.result = "False",
                                    !.inits = run.inits]
    /\ UNCHANGED <<running, app_vars, handler_vars, reader, now>>

\* lines 114-115
Begin ==
    /\ running = "audio_reader"
    /\ read_pc = "begin"
    /\ reader' = [reader EXCEPT !.is_playing = TRUE, !.current_page = run.start_page]
    /\ read_pc' = "while"
    /\ UNCHANGED <<running, app_vars, handler_vars, texts, now, said, run>>

\* line 118 and, in the loop, lines 119-123 up to the blocking runAndWait, or
\* the skip of line 129; out of the loop, lines 133-136
While ==
    /\ running = "audio_reader"
    /\ read_pc = "while"
    /\ IF reader.is_playing /\ reader.current_page <= Len(texts)
       THEN LET text == Index(texts, reader.current_page - 1)
            IN  IF readable(text)
                THEN /\ said' = Say(said, reader.current_page)
                     /\ read_pc' = "speaking"
                     /\ run' = [run EXCEPT !.said_after_stop = @ \/ run.stop_called]
                     /\ UNCHANGED reader
                ELSE /\ read_pc' = "advance"
                     /\ UNCHANGED <<said, reader, run>>
       ELSE /\ reader' = [reader EXCEPT !.is_playing = FALSE]
            /\ read_pc' = "idle"
            /\ UNCHANGED <<said, run>>
    /\ UNCHANGED <<running, app_vars, handler_vars, texts, now>>

\* read_text: runAndWait returns (lines 94-95, or 102-103 on the retry)
Spoken ==
    /\ running = "audio_reader"
    /\ read_pc \in {"speaking", "retrying"}
    /\ said' = Finished(said)
    /\ IF run.op = "read_text"
       THEN /\ read_pc' = "idle"
            /\ run' = [run EXCEPT !.result = "True"]
       ELSE /\ read_pc' = "advance"
            /\ run' = run
    /\ UNCHANGED <<running, app_vars, handler_vars, reader, texts, now>>

\* read_text: the first say / runAndWait raises (lines 96-106); recovery, then
\* either the retry's utterance, or False and read_pages' own recovery
\* (lines 124-127)
SpeakingRaises(failed1, failed2) ==
    /\ running = "audio_reader"
    /\ read_pc = "speaking"
    /\ reader.recovery_attempts < MaxAttemptsSeen
    /\ LET first == recover_playback(reader, now, failed1)
           second == recover_playback(first.r, now, failed2)
           n1 == count_inits(run.inits, reader, now, first)
           n2 == count_inits(n1, first.r, now, second)
       IN  /\ failed1 = InitAttempts => reader.error_count + InitAttempts <= MaxErrorCount
           /\ ~first.ok /\ failed2 = InitAttempts
                 => first.r.error_count + InitAttempts <= MaxErrorCount
           /\ (first.ok \/ run.op = "read_text") => failed2 = 0
           /\ IF read_text_retries(first.ok)
              THEN /\ reader' = first.r
                   /\ said' = Say(said, said[Len(said)].page)
                   /\ read_pc' = "retrying"
                   /\ run' = [run EXCEPT !.faulted = run.op = "read_pages",
                                         !.recovered = first.ok, !.inits = n1]
              ELSE /\ said' = said
                   /\ IF run.op = "read_text"
                      THEN /\ reader' = first.r
                           /\ read_pc' = "idle"
                           /\ run' = [run EXCEPT !.result = "False", !.inits = n1]
                      ELSE IF second.ok
                      THEN /\ reader' = second.r
                           /\ read_pc' = "advance"
                           /\ run' = [run EXCEPT !.faulted = TRUE, !.inits = n2,
                                                 !.init_failed = @ \/ init_raised(reader, first.r)]
                      ELSE /\ reader' = [second.r EXCEPT !.is_playing = FALSE]
                           /\ read_pc' = "idle"
                           /\ run' = [run EXCEPT !.faulted = TRUE, !.gave_up = TRUE, !.inits = n2,
                                                 !.init_failed = @ \/ init_raised(reader, first.r)
                                                                   \/ init_raised(first.r, second.r)]
    /\ UNCHANGED <<running, app_vars, handler_vars, texts, now>>

\* read_text: the retry raises too (lines 104-106); read_pages' recovery
\* (lines 124-127)
RetryRaises(failed) ==
    /\ running = "audio_reader"
    /\ read_pc = "retrying"
    /\ reader.recovery_attempts < MaxAttemptsSeen
    /\ LET again == recover_playback(reader, now, failed)
       IN  /\ failed = InitAttempts => reader.error_count + InitAttempts <= MaxErrorCount
           /\ run.op = "read_text" => failed = 0
           /\ IF run.op = "read_text"
              THEN /\ reader' = reader
                   /\ read_pc' = "idle"
                   /\ run' = [run EXCEPT !.result = "False"]
              ELSE IF again.ok
              THEN /\ reader' = again.r
                   /\ read_pc' = "advance"
                   /\ run' = [run EXCEPT !.faulted = TRUE,
                                         !.inits = count_inits(@, reader, now, again)]
              ELSE /\ reader' = [again.r EXCEPT !.is_playing = FALSE]
                   /\ read_pc' = "idle"
                   /\ run' = [run EXCEPT !.faulted = TRUE, !.gave_up = TRUE,
                                         !.inits = count_inits(@, reader, now, again),
                                         !.init_failed = @ \/ init_raised(reader, again.r)]
    /\ UNCHANGED <<running, app_vars, handler_vars, texts, now, said>>

\* recover_playback called on its own (as set_properties does, line 84)
RecoverPlayback(failed) ==
    /\ running = "audio_reader"
    /\ read_pc = "idle"
    /\ reader.recovery_attempts < MaxAttemptsSeen
    /\ failed = InitAttempts => reader.error_count + InitAttempts <= MaxErrorCount
    /\ LET res == recover_playback(reader, now, failed)
       IN  /\ ~res.init => failed = 0
           /\ reader' = res.r
           /\ run' = [NoRun EXCEPT !.op = "recover_playback",
                                   !.result = IF res.ok THEN "True" ELSE "False",
                                   !.prior = reader, !.at = now, !.init = res.init,
                                   !.inits = count_inits(run.inits, reader, now, res)]
    /\ texts' = <<>>
    /\ said' = <<>>
    /\ UNCHANGED <<running, app_vars, handler_vars, read_pc, now>>

\* line 131
Advance ==
    /\ running = "audio_reader"
    /\ read_pc = "advance"
    /\ reader' = [reader EXCEPT !.current_page = @ + 1]
    /\ read_pc' = "while"
    /\ UNCHANGED <<running, app_vars, handler_vars, texts, now, said, run>>

\* stop(), called from another thread while read_pages runs (lines 138-146).
\* engine.stop() changes no field; the utterance it cuts short ends as any
\* other does, by Spoken or by an exception.
Stop ==
    /\ running = "audio_reader"
    /\ read_pc # "idle"
    /\ reader' = [reader EXCEPT !.is_playing = FALSE]
    /\ run' = [run EXCEPT !.stop_called = TRUE,
                          !.paused_page = IF read_pc \in {"speaking", "retrying"}
                                             /\ ~run.stop_called
                                          THEN reader.current_page ELSE @]
    /\ UNCHANGED <<running, app_vars, handler_vars, texts, read_pc, now, said>>

\* time passes
Tick ==
    /\ running = "audio_reader"
    /\ now < MaxTime
    /\ now' = now + TickSeconds
    /\ UNCHANGED <<running, app_vars, handler_vars, reader, texts, read_pc, said, run>>

----------------------------------------------------------------------------
(* pdf_handler.py: PDFHandler *)

NoPdf == [open |-> FALSE, doc |-> NoDoc]

\* __init__
PDFHandler ==
    [pdf |-> NoPdf,
     total_pages |-> 0,
     current_page |-> 1,
     pdf_text |-> <<>>]

\* the files load_pdf is given: a document, or a path pdfplumber cannot open
\* (extract_text treats an empty text layer and a page with stray words alike)
PdfFiles ==
    {[doc |-> d, fault |-> "none"] : d \in DocsOf(PageKinds \ {"words"}, MaxPdfPages)}
        \cup {[doc |-> NoDoc, fault |-> "open"]}

\* config.py
CACHE_CLEANUP_DAYS == 7
MAX_CACHE_SIZE_MB == 500

\* A file of the cache directory: its age in days and its size in MB.  A
\* listing of the directory is kept in the order of sorted(..., key=st_mtime),
\* oldest file first.
CacheAges == {CACHE_CLEANUP_DAYS, CACHE_CLEANUP_DAYS + 1}
CacheSizes == {200, 300}
CacheFiles == [age : CacheAges, size : CacheSizes]

Listings ==
    {l \in SeqsUpTo(CacheFiles, MaxCacheFiles) :
        \A i \in 1..Len(l) : \A j \in i..Len(l) : l[i].age >= l[j].age}

\* the directories load_pdf is run against: a cleanup that is not due, or one
\* that is due and finds one file (on its own within MAX_CACHE_SIZE_MB whatever
\* its size)
LoadRuns ==
    {[due |-> FALSE, listing |-> <<>>]}
       \cup {[due |-> TRUE, listing |-> <<file>>] : file \in {c \in CacheFiles : c.size = 200}}

RECURSIVE total_size_of(_)
total_size_of(files) ==
    IF files = <<>> THEN 0 ELSE Head(files).size + total_size_of(Tail(files))

\* lines 109-118: unlink the oldest files until total_size is within the limit
RECURSIVE remove_oldest(_, _)
remove_oldest(files, total_size) ==
    IF files = <<>> \/ total_size <= MAX_CACHE_SIZE_MB THEN files
    ELSE remove_oldest(Tail(files), total_size - Head(files).size)

\* cleanup_cache on a directory holding listing: the files it leaves.  due
\* says that the last cleanup is an hour or more ago (line 86).  total_size is
\* summed over every file met by the first loop (line 102), the ones it
\* unlinks included.
cleanup_cache(listing, due) ==
    IF ~due THEN listing
    ELSE LET total_size == total_size_of(listing)
             kept == SelectSeq(listing, LAMBDA file : ~(file.age > CACHE_CLEANUP_DAYS))
         IN  IF total_size > MAX_CACHE_SIZE_MB
             THEN remove_oldest(kept, total_size)
             ELSE kept

\* cleanup_memory without lines 75-76
cleanup_memory_keeps_text(h) == [h EXCEPT !.pdf = NoPdf]

cleanup_memory(h) == [h EXCEPT !.pdf_text = <<>>, !.pdf = NoPdf]

\* load_pdf that returns True whatever happens
load_pdf_always_true(h, f) ==
    LET cleaned == cleanup_memory(h)
    IN  IF f.fault = "open"
        THEN [ok |-> TRUE, h |-> cleaned]
        ELSE [ok |-> TRUE,
              h |-> [cleaned EXCEPT !.pdf = [open |-> TRUE, doc |-> f.doc],
                                    !.total_pages = Len(f.doc.pages)]]

\* load_pdf: [ok, h], the value returned and the fields (cleanup_cache
\* touches the cache directory only)
load_pdf(h, f) ==
    LET cleaned == cleanup_memory(h)
    IN  IF f.fault = "open"
        THEN [ok |-> FALSE, h |-> cleaned]
        ELSE [ok |-> TRUE,
              h |-> [cleaned EXCEPT !.pdf = [open |-> TRUE, doc |-> f.doc],
                                    !.total_pages = Len(f.doc.pages)]]

\* extract_text: [none, text, h]; none stands for the None it returns.
\* memory_high is what config.check_memory_usage() finds after the extraction.
extract_text(h, page_number, memory_high) ==
    IF ~h.pdf.open \/ page_number < 1 \/ page_number > h.total_pages
    THEN [none |-> TRUE, text |-> EmptyStr, h |-> h]
    ELSE LET r == page_extract_text(h.pdf.doc, page_number)
         IN  IF r.raised THEN [none |-> TRUE, text |-> EmptyStr, h |-> h]
             ELSE [none |-> ~truthy(r.text),
                   text |-> r.text,
                   h |-> IF memory_high THEN cleanup_memory(h) ELSE h]

\* extract_all_text from page i on; high is the set of pages after whose
\* extraction memory usage is above the threshold
RECURSIVE extract_pages(_, _, _)
extract_pages(h, i, high) ==
    IF i > h.total_pages THEN h
    ELSE LET r == extract_text(h, i, i \in high)
             text == IF r.none THEN EmptyStr ELSE r.text
         IN  extract_pages([r.h EXCEPT !.pdf_text = Append(@, text)], i + 1, high)

extract_all_text(h, high) == extract_pages([h EXCEPT !.pdf_text = <<>>], 1, high)

\* The method that ran last: its name, arguments and result, for load_pdf the
\* documents the handler held before the call (prior), for extract_all_text
\* whether a document was open when it was called (was_open) and the pages
\* after whose extraction memory usage was high (high), for cleanup_cache the
\* files of the cache directory before (listing) and after (remaining) and
\* whether the cleanup was due (cleaned), and the file the last load_pdf was
\* given (loaded).
NoHandlerCall == [op |-> "", loaded |-> [doc |-> NoDoc, fault |-> "none"], ok |-> FALSE,
                  page |-> 0, none |-> FALSE, text |-> EmptyStr, prior |-> {},
                  was_open |-> FALSE, high |-> {},
                  listing |-> <<>>, remaining |-> <<>>, cleaned |-> FALSE]

\* load_pdf; when the file opens it goes on to cleanup_cache (line 31), which
\* finds listing in the cache directory
LoadPdf(f, listing, due) ==
    /\ running = "pdf_handler"
    /\ f.fault = "open" => ~due
    /\ handler' = load_pdf(handler, f).h
    /\ handler_call' = [NoHandlerCall EXCEPT !.op = "load_pdf", !.loaded = f,
                                             !.ok = load_pdf(handler, f).ok,
                                             !.listing = listing,
                                             !.remaining = cleanup_cache(listing, due),
                                             !.cleaned = due,
                                             !.prior = DocsIn(handler.pdf_text)
                                                 \cup (IF handler.pdf.open
                                                       THEN {handler.pdf.doc.id} ELSE {})]
    /\ UNCHANGED <<running, app_vars, reader_vars>>

ExtractText(page_number, memory_high) ==
    /\ running = "pdf_handler"
    /\ LET r == extract_text(handler, page_number, memory_high)
       IN  /\ handler' = r.h
           /\ handler_call' = [NoHandlerCall EXCEPT !.op = "extract_text", !.page = page_number,
                                                    !.none = r.none, !.text = r.text,
                                                    !.loaded = handler_call.loaded]
    /\ UNCHANGED <<running, app_vars, reader_vars>>

ExtractAllText(high) ==
    /\ running = "pdf_handler"
    /\ handler' = extract_all_text(handler, high)
    /\ handler_call' = [NoHandlerCall EXCEPT !.op = "extract_all_text",
                                             !.loaded = handler_call.loaded,
                                             !.was_open = handler.pdf.open,
                                             !.high = high \cap (1..handler.total_pages)]
    /\ UNCHANGED <<running, app_vars, reader_vars>>

\* cleanup_cache called on its own, against a directory holding listing.  Of
\* the handler it reads and writes cache_dir and last_cleanup only, so the calls
\* are followed apart from the handler's documents.
CleanupCache(listing, due) ==
    /\ running = "cleanup_cache"
    /\ ~due => listing = <<>>
    /\ handler_call' = [NoHandlerCall EXCEPT !.op = "cleanup_cache",
                                             !.listing = listing,
                                             !.remaining = cleanup_cache(listing, due),
                                             !.cleaned = due]
    /\ UNCHANGED <<running, app_vars, reader_vars, handler>>

\* close()
Close ==
    /\ running = "pdf_handler"
    /\ handler' = cleanup_memory(handler)
    /\ handler_call' = [NoHandlerCall EXCEPT !.op = "close", !.loaded = handler_call.loaded]
    /\ UNCHANGED <<running, app_vars, reader_vars>>

----------------------------------------------------------------------------
Programs == {"app", "audio_reader", "pdf_handler", "cleanup_cache"}

\* every object as its constructor leaves it
Constructed ==
    /\ handler = PDFHandler
    /\ handler_call = NoHandlerCall
    /\ reader = AudioReader
    /\ texts = <<>>
    /\ read_pc = "idle"
    /\ now = RecoveryWindow
    /\ said = <<>>
    /\ run = NoRun
    /\ state = AudiobookState
    /\ engine = "None"
    /\ app_pc = "idle"
    /\ caller = ""
    /\ engine_calls = <<>>
    /\ app_call = NoCall

Init ==
    /\ running \in Programs
    /\ Constructed

InitApp ==
    /\ running = "app"
    /\ Constructed

InitReader ==
    /\ running = "audio_reader"
    /\ Constructed

Next ==
    \/ StartRun
    \/ RunWithoutFile
    \/ \E f \in Uploads : HandleFileUpload(f)
    \/ \E click \in Clicks, o1 \in InitOutcomes :
          \E target_page \in (IF click = "go" THEN 1..MaxDocPages ELSE {state.current_page}),
             o2, o3 \in (IF o1 = "init_raises" THEN InitOutcomes ELSE {"ok"}),
             speed \in (IF click = "speed" THEN Speeds \ {state.speed} ELSE {state.speed}),
             rate_raises \in (IF click = "speed" THEN BOOLEAN ELSE {FALSE}) :
                  CreateControls(click, target_page, o1, o2, o3, speed, rate_raises)
    \/ UtteranceDone
    \/ UtteranceFails
    \/ \E new_page \in 0..(MaxDocPages + 1) : UpdatePage(new_page)
    \/ \E list \in TextLists : \E start_page \in 0..(Len(list) + 1) : ReadPages(list, start_page)
    \/ \E text \in TextsAt(1) : ReadText(text)
    \/ Begin
    \/ While
    \/ Spoken
    \/ \E failed1, failed2 \in {0, InitAttempts} : SpeakingRaises(failed1, failed2)
    \/ \E failed \in {0, InitAttempts} : RetryRaises(failed)
    \/ \E failed \in {0, InitAttempts} : RecoverPlayback(failed)
    \/ Advance
    \/ Stop
    \/ Tick
    \/ \E f \in PdfFiles, cleanup \in LoadRuns : LoadPdf(f, cleanup.listing, cleanup.due)
    \/ \E listing \in Listings, due \in BOOLEAN : CleanupCache(listing, due)
    \/ \E page_number \in 0..(MaxPdfPages + 1), memory_high \in BOOLEAN :
          ExtractText(page_number, memory_high)
    \/ \E high \in SUBSET (1..MaxPdfPages) : ExtractAllText(high)
    \/ Close

Spec == Init /\ [][Next]_vars

\* each program on its own
NextApp ==
    \/ StartRun
    \/ RunWithoutFile
    \/ \E f \in Uploads : HandleFileUpload(f)
    \/ \E click \in Clicks, o1 \in InitOutcomes :
          \E target_page \in (IF click = "go" THEN 1..MaxDocPages ELSE {state.current_page}),
             o2, o3 \in (IF o1 = "init_raises" THEN InitOutcomes ELSE {"ok"}),
             speed \in (IF click = "speed" THEN Speeds \ {state.speed} ELSE {state.speed}),
             rate_raises \in (IF click = "speed" THEN BOOLEAN ELSE {FALSE}) :
                  CreateControls(click, target_page, o1, o2, o3, speed, rate_raises)
    \/ UtteranceDone
    \/ UtteranceFails
    \/ \E new_page \in 0..(MaxDocPages + 1) : UpdatePage(new_page)

NextReader ==
    \/ \E list \in TextLists : \E start_page \in 0..(Len(list) + 1) : ReadPages(list, start_page)
    \/ \E text \in TextsAt(1) : ReadText(text)
    \/ Begin
    \/ While
    \/ Spoken
    \/ \E failed1, failed2 \in {0, InitAttempts} : SpeakingRaises(failed1, failed2)
    \/ \E failed \in {0, InitAttempts} : RetryRaises(failed)
    \/ \E failed \in {0, InitAttempts} : RecoverPlayback(failed)
    \/ Advance
    \/ Stop
    \/ Tick

InitHandler ==
    /\ running = "pdf_handler"
    /\ Constructed

NextHandler ==
    \/ \E f \in PdfFiles, cleanup \in LoadRuns : LoadPdf(f, cleanup.listing, cleanup.due)
    \/ \E page_number \in 0..(MaxPdfPages + 1), memory_high \in BOOLEAN :
          ExtractText(page_number, memory_high)
    \/ \E high \in SUBSET (1..MaxPdfPages) : ExtractAllText(high)
    \/ Close

SpecApp == InitApp /\ [][NextApp]_vars
SpecReader == InitReader /\ [][NextReader]_vars
SpecHandler == InitHandler /\ [][NextHandler]_vars

\* the two players together: the AudiobookPlayer script and AudioReader
InitPlayers ==
    /\ running \in {"app", "audio_reader"}
    /\ Constructed

NextPlayers == NextApp \/ NextReader

SpecPlayers == InitPlayers /\ [][NextPlayers]_vars

\* playback runs: the script of AudiobookPlayer, and read_pages called on an
\* AudioReader that is new or was last used by recover_playback, the only
\* writer of the fields a run starts from (error_count, last_error_time,
\* recovery_attempts)
RunReadPages(list, start_page) ==
    /\ run.op # "read_pages"
    /\ ReadPages(list, start_page)

NextRuns ==
    \/ NextApp
    \/ \E list \in TextLists : \E start_page \in 0..(Len(list) + 1) : RunReadPages(list, start_page)
    \/ \E failed \in {0, InitAttempts} : RecoverPlayback(failed)
    \/ Begin
    \/ While
    \/ Spoken
    \/ \E failed1, failed2 \in {0, InitAttempts} : SpeakingRaises(failed1, failed2)
    \/ \E failed \in {0, InitAttempts} : RetryRaises(failed)
    \/ Advance
    \/ Stop
    \/ Tick

\* the scheduling the code relies on: a blocked runAndWait() returns or raises,
\* and the thread inside read_pages keeps running
FairPlayers ==
    WF_vars(\/ UtteranceDone \/ UtteranceFails
            \/ Begin \/ While \/ Advance
            \/ Spoken
            \/ \E failed1, failed2 \in {0, InitAttempts} : SpeakingRaises(failed1, failed2)
            \/ \E failed \in {0, InitAttempts} : RetryRaises(failed))

SpecRuns == InitPlayers /\ [][NextRuns]_vars /\ FairPlayers

\* the two document loaders together: the AudiobookPlayer script and PDFHandler
InitLoaders ==
    /\ running \in {"app", "pdf_handler"}
    /\ Constructed

NextLoaders == NextApp \/ NextHandler

SpecLoaders == InitLoaders /\ [][NextLoaders]_vars

----------------------------------------------------------------------------
(* Properties *)

\* the page markers of the two programs: the text handle_file_upload stores
\* for a page without text (app.py, lines 428-436), and what read_pages does
\* not hand to read_text (audio_reader.py, line 120)
no_text_marker(text) == startswith(text, "[Page")

InRange(page, total) == 1 <= page /\ page <= total

\* read_pages has passed line 115 with a start page inside texts
ReaderStarted == read_pc # "begin" /\ texts # <<>> /\ InRange(run.start_page, Len(texts))

\* read_pages has returned, and nobody called stop() meanwhile
ReaderReturned == ReaderStarted /\ read_pc = "idle" /\ ~run.stop_called

\* the script run in which Play was clicked is over
PlayRunOver ==
    /\ app_pc = "idle"
    /\ app_call.op = "create_controls"
    /\ app_call.click = "play_pause"
    /\ ~app_call.was_playing

\* ... and in it neither the engine's initialisation nor an utterance raised
EngineErrors == {"Failed to initialize text-to-speech engine", "Error during playback",
                 "Error creating controls"}

QuietPlayRunOver ==
    /\ PlayRunOver
    /\ engine = "engine"
    /\ state.error_message \notin EngineErrors
    /\ \A i \in 1..Len(engine_calls) : ~engine_calls[i].raised

\* the texts handed to engine.say, in order
SaidTexts(calls) ==
    LET says == SelectSeq(calls, LAMBDA call : call.op = "say")
    IN  [i \in 1..Len(says) |-> says[i].text]

\* the texts of list from page s on that are not no-text markers, in order
TextPagesFrom(list, s) ==
    SelectSeq(SubSeq(list, s, Len(list)), LAMBDA t : ~no_text_marker(t))

\* the page numbers from s to n whose text in list is readable, in order
RECURSIVE ReadablePages(_, _, _)
ReadablePages(list, s, n) ==
    IF s > n THEN <<>>
    ELSE (IF readable(list[s]) THEN <<s>> ELSE <<>>) \o ReadablePages(list, s + 1, n)

----------------------------------------------------------------------------
\* C1, as stated: in every reachable state, whenever total_pages > 0 the
\* current page satisfies 1 <= current_page <= total_pages, in the
\* AudiobookPlayer and in AudioReader.read_pages (total_pages = len(texts)).
C1_AlwaysWithinDocument ==
    /\ state.total_pages > 0 => InRange(state.current_page, state.total_pages)
    /\ ReaderStarted => InRange(reader.current_page, Len(texts))

\* C1, amended: in the AudiobookPlayer 1 <= current_page <= total_pages whenever
\* total_pages > 0.  In read_pages, started inside texts, 1 <= current_page <=
\* len(texts) + 1; current_page = len(texts) + 1 only once the loop has moved past
\* the last page, and read_pages returns there with is_playing false.
C1_PageInRange ==
    /\ state.total_pages > 0 => InRange(state.current_page, state.total_pages)
    /\ ReaderStarted =>
          /\ InRange(reader.current_page, Len(texts) + 1)
          /\ reader.current_page = Len(texts) + 1 => read_pc \in {"while", "idle"}
          /\ read_pc = "idle" => ~reader.is_playing

\* read_pages has read to the end of texts and returned one past the last page
C1_Witness ==
    /\ ReaderReturned
    /\ ~run.faulted
    /\ said # <<>>
    /\ reader.current_page = Len(texts) + 1

\* C2: update_page(n) with n outside [1, total_pages] changes nothing: the
\* current page, the reading page and the playing flag (and every other field of
\* the state) stay as they were, and the engine is not called.
C2_OutOfRangeIsNoOp ==
    [][(app_call'.op = "update_page" /\ ~InRange(app_call'.page, state.total_pages))
          => (state' = state /\ engine_calls' = <<>> /\ engine' = engine)]_vars

\* update_page was called with the page after the last one while playing was set
C2_Witness ==
    /\ app_call.op = "update_page"
    /\ state.total_pages > 0
    /\ app_call.page = state.total_pages + 1
    /\ app_call.was_playing
    /\ state.is_playing

\* C3: update_page(n) with n in [1, total_pages] ends with current_page = n (and
\* reading_page = n) and is_playing false, and has called engine.stop() exactly when
\* the player has an engine, whether or not is_playing was set before; the Go
\* button leaves the same.
C3_GoToPage ==
    /\ (app_call.op = "update_page" /\ InRange(app_call.page, state.total_pages))
          => /\ state.current_page = app_call.page
             /\ state.reading_page = app_call.page
             /\ ~state.is_playing
             /\ engine_calls = IF engine = "None" THEN <<>> ELSE <<StopCall>>
    /\ (app_call.op = "create_controls" /\ app_call.click = "go")
          => /\ state.current_page = app_call.page
             /\ state.reading_page = app_call.page
             /\ ~state.is_playing
             /\ app_pc = "idle"

\* update_page moved to a page while is_playing was set and an engine existed
C3_Witness ==
    /\ app_call.op = "update_page"
    /\ InRange(app_call.page, state.total_pages)
    /\ app_call.was_playing
    /\ engine = "engine"
    /\ state.total_pages > 1

\* C4: after handle_file_upload of a document of P >= 1 pages, from any earlier
\* state, total_pages = P, current_page is in [1, P] (the earlier page if that is
\* in [1, P], else 1) and is_playing is false.
C4_LoadKeepsPageInRange ==
    (app_call.op = "handle_file_upload" /\ app_call.file.fault = "none"
        /\ Len(app_call.file.doc.pages) >= 1)
       => /\ state.total_pages = Len(app_call.file.doc.pages)
          /\ InRange(state.current_page, state.total_pages)
          /\ state.current_page = IF InRange(app_call.page, state.total_pages)
                                  THEN app_call.page ELSE 1
          /\ state.reading_page = state.current_page
          /\ ~state.is_playing

\* a shorter document was loaded while the page was beyond its end and
\* is_playing was set
C4_Witness ==
    /\ app_call.op = "handle_file_upload"
    /\ app_call.file.fault = "none"
    /\ Len(app_call.file.doc.pages) >= 1
    /\ app_call.page > Len(app_call.file.doc.pages)
    /\ app_call.was_playing
    /\ app_call.prior # {}

C6_AllMarkersNothingSpoken ==
    /\ (QuietPlayRunOver /\ state.pdf_text # <<>>
           /\ \A p \in 1..Len(state.pdf_text) : no_text_marker(state.pdf_text[p]))
          => /\ SaidTexts(engine_calls) = <<>>
             /\ ~state.is_playing
             /\ state.current_page > state.total_pages
    /\ (ReaderReturned /\ \A p \in 1..Len(texts) : texts[p] = NoTextFoundOnPage)
          => /\ said = <<>>
             /\ ~reader.is_playing
             /\ reader.current_page > Len(texts)

\* C7, as stated: with no engine failure and no pause, Play from page s on a
\* document of P pages hands each page of s..P that is not a no-text marker to the
\* engine exactly once, in page order, hands it no marker page, and stops with
\* current_page = P + 1 (AudiobookPlayer and read_pages).
C7_EachPageSpokenOnce ==
    /\ (QuietPlayRunOver /\ InRange(app_call.page, Len(state.pdf_text)))
          => /\ SaidTexts(engine_calls)
                   = TextPagesFrom(state.pdf_text, app_call.page)
             /\ state.current_page = state.total_pages + 1
    /\ (ReaderReturned /\ ~run.faulted)
          => /\ said = [i \in 1..Len(ReadablePages(texts, run.start_page, Len(texts)))
                           |-> [page |-> ReadablePages(texts, run.start_page, Len(texts))[i],
                                finished |-> TRUE]]
             /\ reader.current_page = Len(texts) + 1

\* C8, as stated: stop() called during the utterance of page p; once read_pages
\* has returned, is_playing is false and current_page = p.
C8_PauseKeepsPage ==
    (read_pc = "idle" /\ ReaderStarted /\ run.paused_page # 0)
       => (~reader.is_playing /\ reader.current_page = run.paused_page)

\* C9, as stated: when the engine raises during read_pages and the recovery
\* attempts inside the window are below the ceiling, the page that failed is
\* spoken again before the loop moves on (it is not skipped); at or beyond the
\* ceiling read_pages stops with is_playing false.
C9_RecoveryResumesSamePage ==
    /\ (ReaderStarted /\ read_pc = "advance" /\ ~run.init_failed
           /\ readable(texts[reader.current_page]))
          => /\ said # <<>>
             /\ said[Len(said)] = [page |-> reader.current_page, finished |-> TRUE]
    /\ (run.faulted /\ ~run.gave_up /\ ~run.init_failed)
          => reader.recovery_attempts <= RecoveryCeiling
    /\ run.gave_up => (read_pc = "idle" /\ ~reader.is_playing)

\* C10, as stated: when an uninterrupted run has finished reading the last
\* page, playback has ended with is_playing false, and the last page has not been
\* read a second time (AudiobookPlayer and read_pages).
C10_EndOfDocumentStops ==
    /\ (QuietPlayRunOver /\ state.pdf_text # <<>>
           /\ \E i \in 1..Len(SaidTexts(engine_calls)) :
                  SaidTexts(engine_calls)[i] = state.pdf_text[Len(state.pdf_text)])
          => /\ ~state.is_playing
             /\ Len(SelectSeq(SaidTexts(engine_calls),
                              LAMBDA t : t = state.pdf_text[Len(state.pdf_text)])) <= 1
    /\ (ReaderReturned /\ said # <<>> /\ said[Len(said)] = [page |-> Len(texts), finished |-> TRUE])
          => /\ ~reader.is_playing
             /\ reader.current_page = Len(texts) + 1

\* the Play / Pause button was clicked and its handler ran (line 247 did not
\* raise)
PlayPauseClicked ==
    /\ app_call.op = "create_controls"
    /\ app_call.click = "play_pause"
    /\ InRange(app_call.page, state.total_pages)

C12_NotPlayingWithoutDocument ==
    /\ (state.total_pages = 0 \/ state.pdf_text = <<>>) => ~state.is_playing
    /\ texts = <<>> => ~reader.is_playing

\* an upload that could not be opened, made while is_playing was still set
C12_Witness ==
    /\ app_call.op = "handle_file_upload"
    /\ app_call.file.fault = "open"
    /\ app_call.was_playing
    /\ state.total_pages = 0

\* C13, as stated: when the engine cannot be initialised as Play is clicked,
\* the failure is reported in error_message, nothing is handed to the engine, and
\* the script run ends with is_playing false.
C13_InitFailureStopsPlayback ==
    (PlayPauseClicked /\ ~app_call.was_playing /\ app_pc = "idle" /\ engine = "None")
       => /\ state.error_message = "Failed to initialize text-to-speech engine"
          /\ SaidTexts(engine_calls) = <<>>
          /\ ~state.is_playing

\* C14, as stated: no page whose stored text is a marker of handle_file_upload
\* ("[Page N: No readable text found]", "[Page N: Error extracting text]") is
\* handed to engine.say by play_current_page, and no page whose text is empty or
\* a "[No text found" marker is handed to it by read_pages.
C14_NoMarkerSpoken ==
    /\ \A i \in 1..Len(engine_calls) :
          engine_calls[i].op = "say" => ~no_text_marker(engine_calls[i].text)
    /\ ReaderStarted => \A i \in 1..Len(said) : readable(texts[said[i].page])

\* C15: load_pdf returns False for a file that cannot be opened and True for
\* one that can; when it has returned True a document is open, it is the one
\* given, and total_pages is its page count; when it has returned False no
\* document is open.
C15_LoadPdfResult ==
    handler_call.op = "load_pdf"
       => /\ handler_call.ok = (handler_call.loaded.fault = "none")
          /\ handler_call.ok
                => /\ handler.pdf.open
                   /\ handler.pdf.doc = handler_call.loaded.doc
                   /\ handler.total_pages = Len(handler_call.loaded.doc.pages)
          /\ ~handler_call.ok => ~handler.pdf.open

\* load_pdf has returned False while the handler held another document
C15_Witness ==
    /\ handler_call.op = "load_pdf"
    /\ ~handler_call.ok
    /\ handler_call.prior # {}
    /\ handler.total_pages > 0

\* the text a load is to store for page p of doc: the page's text where it has
\* one, else the marker of handle_file_upload
upload_entry(doc, p) ==
    CASE doc.pages[p] = "text" -> RawText(doc.id, p)
      [] doc.pages[p] = "words" -> JoinedWords(doc.id, p)
      [] doc.pages[p] = "fail" -> ErrorExtractingText(p)
      [] OTHER -> NoReadableText(p)

\* ... else the empty string of extract_all_text
handler_entry(doc, p) ==
    CASE doc.pages[p] = "text" -> RawText(doc.id, p)
      [] doc.pages[p] = "blank" -> Blank
      [] OTHER -> EmptyStr

\* extract_all_text has run on an open document
ExtractedAll == handler_call.op = "extract_all_text" /\ handler_call.was_open

\* C16, as stated: after the load of a document of P pages, whichever pages
\* fail or have no text, the stored text has exactly P entries, entry i is page
\* i's: its text, or a marker / the empty string where page i failed or had none
\* (handle_file_upload; load_pdf followed by extract_all_text).
C16_EveryPageHasItsEntry ==
    /\ (app_call.op = "handle_file_upload" /\ app_call.file.fault = "none")
          => state.pdf_text = [p \in 1..Len(app_call.file.doc.pages)
                                  |-> upload_entry(app_call.file.doc, p)]
    /\ ExtractedAll
          => handler.pdf_text = [p \in 1..Len(handler_call.loaded.doc.pages)
                                    |-> handler_entry(handler_call.loaded.doc, p)]

\* what C17 has cleanup_cache leave: of the files not older than
\* CACHE_CLEANUP_DAYS, in mtime order, the longest tail whose size is within
\* MAX_CACHE_SIZE_MB when the files present exceed it, else all of them
RECURSIVE within_limit(_)
within_limit(files) ==
    IF files = <<>> \/ total_size_of(files) <= MAX_CACHE_SIZE_MB THEN files
    ELSE within_limit(Tail(files))

\* C17, as stated: when cleanup_cache runs it deletes every file older than
\* CACHE_CLEANUP_DAYS, and a file not older than that only while the files still
\* present exceed MAX_CACHE_SIZE_MB, oldest first, stopping as soon as the
\* remaining total is within the limit.
C17_CacheCleanup ==
    (handler_call.op \in {"cleanup_cache", "load_pdf"} /\ handler_call.cleaned)
       => handler_call.remaining
             = within_limit(SelectSeq(handler_call.listing,
                                      LAMBDA file : file.age <= CACHE_CLEANUP_DAYS))

\* a script run or an update_page call is over in which the page was changed
\* (update_page inside the document, Go, Previous, Next) or playback was
\* stopped (Pause)
PageChangedOrStopped ==
    /\ app_pc = "idle"
    /\ \/ app_call.op = "update_page" /\ InRange(app_call.page, state.total_pages)
       \/ /\ app_call.op = "create_controls"
          /\ app_call.click \in {"previous", "next"}
          /\ InRange(app_call.page, state.total_pages)
       \/ /\ app_call.op = "create_controls"
          /\ app_call.click = "go"
          /\ state.current_page = app_call.page
       \/ PlayPauseClicked /\ app_call.was_playing

\* C18, as stated: after every stop or page change last_settings is a snapshot
\* of the playback state: its page and speed equal current_page and speed (and
\* likewise volume and voice), whatever settings changes and navigation came
\* before.
C18_LastSettingsSnapshot ==
    PageChangedOrStopped
       => /\ state.last_settings.last_page = state.current_page
          /\ state.last_settings.speed = state.speed

\* the utterances asked of the engine for the page of utterance i
SaysFor(i) == {j \in 1..Len(said) : said[j].page = said[i].page}

\* C19: for one page read_text asks the engine to speak at most twice, the
\* second time only if, and whenever, recover_playback returned True; it
\* returns True exactly if one of the attempts completed, and for an empty text
\* returns False with nothing asked of the engine.
C19_ReadText ==
    /\ \A i \in 1..Len(said) : Cardinality(SaysFor(i)) <= 2
    /\ run.op = "read_text"
          => /\ Len(said) <= 2
             /\ Len(said) = 2 <=> run.recovered
             /\ read_pc = "idle"
                   => /\ run.result \in {"True", "False"}
                      /\ run.result = "True" <=> \E i \in 1..Len(said) : said[i].finished
             /\ ~truthy(texts[1]) => (read_pc = "idle" /\ run.result = "False" /\ said = <<>>)

\* read_text returned True from its retry
C19_Witness ==
    /\ run.op = "read_text"
    /\ read_pc = "idle"
    /\ run.result = "True"
    /\ Len(said) = 2
    /\ ~said[1].finished
    /\ said[2].finished

\* C20: a call of recover_playback less than 60 seconds after last_error_time
\* goes on to initialize_engine only while fewer than 3 calls have been counted;
\* past that it returns False and leaves the engine, last_error_time and
\* error_count alone.  So no more than 3 calls in such a row reinitialize.  A
\* call 60 seconds or more after last_error_time sets the count to 1.
C20_RecoveryBounded ==
    /\ run.inits <= 3
    /\ run.op = "recover_playback"
          => IF run.at - run.prior.last_error_time < 60
             THEN /\ reader.recovery_attempts = run.prior.recovery_attempts + 1
                  /\ run.init <=> run.prior.recovery_attempts < 3
                  /\ ~run.init => /\ run.result = "False"
                                  /\ reader.last_error_time = run.prior.last_error_time
                                  /\ reader.error_count = run.prior.error_count
             ELSE reader.recovery_attempts = 1 /\ run.init

\* a fourth call within the window was refused after three that reinitialized
C20_Witness ==
    /\ run.op = "recover_playback"
    /\ run.at - run.prior.last_error_time < 60
    /\ run.prior.recovery_attempts = 3
    /\ run.inits = 3
    /\ run.result = "False"
    /\ ~run.init

\* C21, as stated: stop() runs concurrently with read_pages.  Once stop() has
\* returned no utterance for a further page is started, is_playing is not set
\* again by the loop, and when read_pages returns is_playing is false.
C21_StopIsNeverLost ==
    (run.op = "read_pages" /\ run.stop_called)
       => /\ ~run.said_after_stop
          /\ ~reader.is_playing

\* the step in which an utterance of play_current_page raised: the call was
\* blocked in runAndWait and its say is now marked
PlaybackRaised ==
    /\ app_pc = "speaking"
    /\ \E i \in 1..Len(engine_calls') : engine_calls'[i].raised

\* C22, as stated: an exception of the engine raised while play_current_page
\* is speaking, at any depth of its auto-advance chain, does not leave the call:
\* the script run goes on to its end with is_playing false, current_page still
\* the page whose utterance failed, and error_message the playback error (which
\* only the settings sidebar, rendered after the call returned, replaces by its
\* own when its setProperty raises too).
C22_PlaybackErrorIsCaught ==
    [][PlaybackRaised
          => /\ app_pc' = "idle"
             /\ ~state'.is_playing
             /\ state'.current_page = state.current_page
             /\ state'.reading_page = state.reading_page
             /\ state'.error_message
                   = IF app_call.rate_raises THEN "Error creating controls"
                     ELSE "Error during playback"]_vars

\* an utterance failed on page 2, reached by auto-advance from page 1
C22_Witness ==
    /\ app_pc = "idle"
    /\ Len(state.pdf_text) >= 2
    /\ \E i \in 1..Len(engine_calls) :
          /\ engine_calls[i].raised
          /\ engine_calls[i].text = state.pdf_text[2]
          /\ \E j \in 1..(i - 1) : engine_calls[j] = SayCall(state.pdf_text[1])
    /\ state.current_page = 2
    /\ ~state.is_playing
    /\ state.error_message = "Error during playback"

\* C23, as stated: after any sequence of load, navigation, play, pause and
\* auto-advance steps, reading_page, current_page and last_settings['last_page']
\* of AudiobookState are equal: the page only changes through set_page.
C23_PageFieldsAgree ==
    /\ state.reading_page = state.current_page
    /\ state.last_settings.last_page = state.current_page

\* a script run that played page 1 and auto-advanced to page 2, all three
\* fields now 2
C23_Witness ==
    /\ app_pc = "idle"
    /\ Len(state.pdf_text) >= 2
    /\ \E i, j \in 1..Len(engine_calls) :
          /\ i < j
          /\ engine_calls[i] = SayCall(state.pdf_text[1])
          /\ engine_calls[j] = SayCall(state.pdf_text[2])
    /\ state.current_page = 2
    /\ state.reading_page = 2
    /\ state.last_settings.last_page = 2

\* read_pages is inside its loop (lines 118-131)
InLoop == run.op = "read_pages" /\ read_pc \in {"while", "speaking", "retrying", "advance"}

\* iterations of the loop of read_pages entered so far: line 131 ended
\* current_page - start_page of them, one more is under way or was left by the
\* break of line 127
LoopSteps ==
    reader.current_page - run.start_page
       + (IF read_pc \in {"speaking", "retrying", "advance"} \/ run.gave_up THEN 1 ELSE 0)

\* one step of a playback run moves current_page (before to after) by 0 or 1,
\* and by 1 only from a page not beyond last
PageStep(before, after, last) ==
    /\ after \in {before, before + 1}
    /\ after = before + 1 => before <= last

\* C24, as stated: during one playback run (read_pages, or play_current_page
\* with its auto-advance) current_page never decreases and grows by exactly 1 per
\* step, the run takes at most total_pages - start_page + 1 page steps, and it
\* ends whatever the document and however the engine fails.
C24_PlaybackRunIsBounded ==
    /\ [][/\ InLoop => /\ PageStep(reader.current_page, reader'.current_page, Len(texts))
                       /\ reader'.current_page = reader.current_page + 1 => read_pc = "advance"
          /\ app_pc = "speaking"
                => /\ PageStep(state.current_page, state'.current_page, state.total_pages - 1)
                   /\ (app_pc' = "speaking" /\ caller' = caller)
                         => state'.current_page = state.current_page + 1]_vars
    /\ [](/\ (run.op = "read_pages" /\ texts # <<>> /\ read_pc # "begin")
                => LoopSteps <= Len(texts) - run.start_page + 1
          /\ (app_pc = "speaking" /\ caller = "button" /\ app_call.click = "play_pause")
                => Len(SaidTexts(engine_calls)) <= state.total_pages - app_call.page + 1)
    /\ (app_pc = "speaking" \/ read_pc # "idle") ~> (app_pc = "idle" /\ read_pc = "idle")

\* read_pages from page 1 over two pages has returned after its two loop
\* steps, both utterances made
C24_Witness ==
    /\ run.op = "read_pages"
    /\ read_pc = "idle"
    /\ Len(texts) = 2
    /\ run.start_page = 1
    /\ LoopSteps = 2
    /\ reader.current_page = 3
    /\ Len(said) >= 2

====
